---- MODULE Spec2Model ----
(***************************************************************************)
(* Model of go-anyway/framework-errors: the code registry (codes.go), the  *)
(* Status Error and the RPC status codec (errors.go), and the              *)
(* Stack-Wrapped Error with its Options (the withStatus file).             *)
(*                                                                         *)
(* A Go string is a sequence of tokens; a token is an opaque run of bytes  *)
(* that holds no brace.  "user {name} not found" is                        *)
(* <<"user ", "{", "name", "}", " not found">>.  A Go map is a reference   *)
(* into the heap `maps` (0 is the nil map); an error value is a reference  *)
(* into the heap `objs` (0 is the nil interface).                          *)
(***************************************************************************)
EXTENDS Integers, Sequences, FiniteSets, TLC

VARIABLES
    objs,    \* heap of error objects (*statusError and *withStatus), in allocation order
    maps,    \* heap of Go maps: content and where the map was made
    held,    \* references to maps the caller holds (data it passed, maps returned by Extra())
    st,      \* the *status.Status in flight (NoStatus before any was built)
    sent,    \* history: who built the error encoded into st, and what its accessors returned then
    args,    \* the caller's inputs of this run: code, message, data, options, stack
    last     \* history: the last call, the error passed and the error returned

vars == <<objs, maps, held, st, sent, args, last>>

----------------------------------------------------------------------------
(* Bounds of the model *)

\* objects on the heap
MaxObjs == 4
\* objects on the heap of a run in which the caller also reads and writes maps
MaxLive == 3
MaxMaps == 3
MaxOpts == 2
MaxDetails == 2

----------------------------------------------------------------------------
(* Strings *)

Empty == <<>>
S(tok) == <<tok>>

\* A byte that is not valid UTF-8 (0xff).
BadByte == "\\xff"

\* utf8.ValidString, as structpb.NewStruct / NewValue use it on keys and string values.
ValidUTF8(s) == \A i \in 1..Len(s) : s[i] # BadByte

RECURSIVE ReplaceAll(_, _, _)
\* strings.ReplaceAll(s, old, new) for a non-empty old: leftmost, non-overlapping, one pass.
ReplaceAll(s, old, new) ==
    IF Len(s) < Len(old) THEN s
    ELSE IF SubSeq(s, 1, Len(old)) = old
         THEN new \o ReplaceAll(SubSeq(s, Len(old) + 1, Len(s)), old, new)
         ELSE <<Head(s)>> \o ReplaceAll(Tail(s), old, new)

\* fmt.Sprintf("{%s}", k)
Placeholder(k) == <<"{">> \o k \o <<"}">>

\* Go map contents: a function from keys (strings) to values.
EmptyMap == [k \in {} |-> Empty]

\* m[k] = v on map content m
MapSet(m, k, v) == [x \in (DOMAIN m) \cup {k} |-> IF x = k THEN v ELSE m[x]]

\* delete(m, k)
MapDelete(m, k) == [x \in (DOMAIN m) \ {k} |-> m[x]]

\* for k, v := range src { dst[k] = v }
MapMerge(dst, src) == [x \in (DOMAIN dst) \cup (DOMAIN src) |-> IF x \in DOMAIN src THEN src[x] ELSE dst[x]]

\* structpb values: a number (float64) or a string
NumV(n) == [t |-> "num", n |-> n, s |-> Empty]
StrV(s) == [t |-> "str", n |-> 0, s |-> s]

\* fmt.Sprintf("%v", v) of a decoded structpb value
Sprint(v) == IF v.t = "num" THEN <<ToString(v.n)>> ELSE v.s

----------------------------------------------------------------------------
(* codes.go: the status-code constants and the registry *)

CodeSuccess == 200
CodeInvalidParam == 1001
CodeUnauthorized == 1002
CodeForbidden == 1003
CodeNotFound == 1004
CodeAlreadyExists == 1005
CodeInternalError == 1006
CodeRequestTimeout == 1007
CodeUserNotFound == 2001
CodeUserAlreadyExist == 2002
CodeRateLimitExceeded == 2003
CodeTokenExpired == 2004

Registered ==
    {CodeSuccess, CodeInvalidParam, CodeUnauthorized, CodeForbidden, CodeNotFound,
     CodeAlreadyExists, CodeInternalError, CodeRequestTimeout, CodeUserNotFound,
     CodeUserAlreadyExist, CodeRateLimitExceeded, CodeTokenExpired}

\* var CodeDefinitions.  Each default message is one token, written "default:<code>"
\* for the Chinese text of the source (all twelve are distinct and non-empty).
CodeDefinitions ==
    [c \in Registered |->
        [Message |-> IF c = CodeSuccess THEN S("success") ELSE S("default:" \o ToString(c)),
         IsAffectStability |-> (c = CodeInternalError)]]

\* The message of the default definition is the token "default:unknown", for the
\* Chinese text of the source; it is not the English "unknown error" that
\* ToGRPCStatus gives a nil error.
\* GetCodeDefinition with a default that does not affect stability
GetCodeDefinition_UnknownStable(code) ==
    IF code \in DOMAIN CodeDefinitions
    THEN CodeDefinitions[code]
    ELSE [Message |-> S("default:unknown"), IsAffectStability |-> FALSE]

GetCodeDefinition(code) ==
    IF code \in DOMAIN CodeDefinitions
    THEN CodeDefinitions[code]
    ELSE [Message |-> S("default:unknown"), IsAffectStability |-> TRUE]

\* GetMessage that never uses the custom message
GetMessage_DefaultOnly(code, customMessage) == GetCodeDefinition(code).Message

GetMessage(code, customMessage) ==
    IF customMessage # Empty THEN customMessage ELSE GetCodeDefinition(code).Message

----------------------------------------------------------------------------
(* errors.go: the RPC status codec, on values *)

\* status.New(c, msg)
StatusNew(c, msg) == [code |-> c, msg |-> msg, details |-> <<>>]

\* st.WithDetails(anyValue) for a structpb.Struct with these fields
\* (the transport code is never OK here, so it does not fail)
WithDetails(s, fields) ==
    [s EXCEPT !.details = Append(@, [type |-> "Struct", fields |-> fields])]

\* structpb.NewStruct(m) returns an error when a key or a string value is not valid UTF-8
NewStructOK(m) ==
    \A k \in DOMAIN m : ValidUTF8(k) /\ (m[k].t = "str" => ValidUTF8(m[k].s))

\* GrpcCodeOf with the already-exists case forgotten
GrpcCodeOf_NoAlreadyExists(code) ==
    CASE code = CodeInvalidParam -> "InvalidArgument"
      [] code = CodeUnauthorized -> "Unauthenticated"
      [] code = CodeForbidden -> "PermissionDenied"
      [] code = CodeNotFound -> "NotFound"
      [] OTHER -> "Internal"

\* the switch of ToGRPCStatus: business code -> gRPC code
GrpcCodeOf(code) ==
    CASE code = CodeInvalidParam -> "InvalidArgument"
      [] code = CodeUnauthorized -> "Unauthenticated"
      [] code = CodeForbidden -> "PermissionDenied"
      [] code = CodeNotFound -> "NotFound"
      [] code = CodeAlreadyExists -> "AlreadyExists"
      [] OTHER -> "Internal"

\* extraMap[k] = v for the strings of err.Extra()
ExtraFields(extra) == [k \in DOMAIN extra |-> StrV(extra[k])]

\* errorInfo of ToGRPCStatus
ErrorInfo(code, msg) ==
    [k \in {S("business_code"), S("business_msg")} |->
        IF k = S("business_code") THEN NumV(code) ELSE StrV(msg)]

\* err is what the StatusError interface shows: nil, or Code(), Msg(), Extra()
ToGRPCStatus(err) ==
    IF err.nil THEN StatusNew("Internal", S("unknown error"))
    ELSE
        LET s0 == StatusNew(GrpcCodeOf(err.Code), err.Msg)
            extraMap == ExtraFields(err.Extra)
            s1 == IF Cardinality(DOMAIN err.Extra) > 0 /\ NewStructOK(extraMap)
                  THEN WithDetails(s0, extraMap) ELSE s0
            errorInfo == ErrorInfo(err.Code, err.Msg)
        IN  IF NewStructOK(errorInfo) THEN WithDetails(s1, errorInfo) ELSE s1

\* BizCodeOf with Unauthenticated and PermissionDenied swapped
BizCodeOf_Swapped(c) ==
    CASE c = "InvalidArgument" -> CodeInvalidParam
      [] c = "Unauthenticated" -> CodeForbidden
      [] c = "PermissionDenied" -> CodeUnauthorized
      [] c = "NotFound" -> CodeNotFound
      [] c = "AlreadyExists" -> CodeAlreadyExists
      [] OTHER -> CodeInternalError

\* the switch of FromGRPCStatus: gRPC code -> business code
BizCodeOf(c) ==
    CASE c = "InvalidArgument" -> CodeInvalidParam
      [] c = "Unauthenticated" -> CodeUnauthorized
      [] c = "PermissionDenied" -> CodeForbidden
      [] c = "NotFound" -> CodeNotFound
      [] c = "AlreadyExists" -> CodeAlreadyExists
      [] OTHER -> CodeInternalError

\* HasBizCode without the type test: any business_code key counts
HasBizCode_AnyType(fields) == S("business_code") \in DOMAIN fields

\* structMap["business_code"].(float64)
HasBizCode(fields) == S("business_code") \in DOMAIN fields /\ fields[S("business_code")].t = "num"

\* structMap["business_msg"].(string)
HasBizMsg(fields) == S("business_msg") \in DOMAIN fields /\ fields[S("business_msg")].t = "str"

\* one turn of the loop over st.Details(); acc is (code, message, extraData)
ScanDetail(acc, detail) ==
    IF detail.type # "Struct" THEN acc
    ELSE IF HasBizCode(detail.fields)
    THEN [acc EXCEPT !.code = detail.fields[S("business_code")].n,
                     !.message = IF HasBizMsg(detail.fields)
                                 THEN detail.fields[S("business_msg")].s ELSE @]
    ELSE [acc EXCEPT !.extraNil = FALSE,
                     !.extraData = MapMerge(@, [k \in DOMAIN detail.fields |-> Sprint(detail.fields[k])])]

RECURSIVE ScanDetails(_, _)
ScanDetails(acc, details) ==
    IF details = <<>> THEN acc
    ELSE ScanDetails(ScanDetail(acc, Head(details)), Tail(details))

\* the code after the loop: the gRPC code decides when code is (still) CodeInternalError
ResolveCode(code, grpcCode) ==
    IF code = CodeInternalError THEN BizCodeOf(grpcCode) ELSE code

\* FromGRPCStatus up to its last line: the arguments it hands to NewStatusError
FromGRPCStatus(s) ==
    LET acc == ScanDetails([code |-> CodeInternalError, message |-> s.msg,
                            extraNil |-> TRUE, extraData |-> EmptyMap], s.details)
    IN  [acc EXCEPT !.code = ResolveCode(acc.code, s.code)]

\* ToGRPCError returning the status of a nil error instead of nil
ToGRPCError_NoNilTest(err) == [nil |-> FALSE, status |-> ToGRPCStatus(err)]

\* ToGRPCError(err): nil, or ToGRPCStatus(err).Err(), which is not nil because the
\* code of the status is never OK
ToGRPCError(err) ==
    IF err.nil THEN [nil |-> TRUE, status |-> StatusNew("none", Empty)]
    ELSE [nil |-> FALSE, status |-> ToGRPCStatus(err)]

----------------------------------------------------------------------------
(* The heap: error objects and maps.  H is a record [objs, maps]. *)

NilRef == 0
\* a cause that is no StatusError: errors.New("original")
PlainErr == -1
NilMap == 0

\* &statusError{statusCode, message, ext: Extension{IsAffectStability, Extra}}
\* (`by` is history: the constructor that made the object)
StatusErrorObj(code, message, stab, extra, by) ==
    [kind |-> "statusError", statusCode |-> code, message |-> message,
     IsAffectStability |-> stab, Extra |-> extra,
     status |-> NilRef, stack |-> Empty, cause |-> NilRef, by |-> by]

\* &withStatus{status, stack, cause}
WithStatusObj(status, stack, cause, by) ==
    [kind |-> "withStatus", statusCode |-> 0, message |-> Empty,
     IsAffectStability |-> FALSE, Extra |-> NilMap,
     status |-> status, stack |-> stack, cause |-> cause, by |-> by]

\* make(map[string]string), or a map literal: a new map on the heap
\* (`origin` is history: who made the map, and for a map a *withStatus returned from
\* Extra(), which one)
AllocMap(H, content, origin) ==
    [H EXCEPT !.maps = Append(@, [content |-> content, origin |-> origin])]

AllocObj(H, obj) == [H EXCEPT !.objs = Append(@, obj)]

\* the reference AllocMap / AllocObj gives out next
NewMapRef(H) == Len(H.maps) + 1
NewObjRef(H) == Len(H.objs) + 1

\* the *statusError behind r: w.status of a *withStatus, r itself otherwise
Inner(H, r) == IF H.objs[r].kind = "withStatus" THEN H.objs[r].status ELSE r

\* (e *statusError) Code / (w *withStatus) Code
Code(H, r) == H.objs[Inner(H, r)].statusCode

\* Msg of both types
Msg(H, r) == H.objs[Inner(H, r)].message

\* IsAffectStability of both types
IsAffectStability(H, r) == H.objs[Inner(H, r)].IsAffectStability

\* (e *statusError) Extra: the map it returns is the stored one, or a new empty one
\* when the stored one is nil; this is the content of the map returned
StatusErrorExtra(H, r) ==
    IF H.objs[r].Extra = NilMap THEN EmptyMap ELSE H.maps[H.objs[r].Extra].content

\* WithStatusExtra without the write of the stack into the copy
WithStatusExtra_StoredOnly(H, r) ==
    LET se == H.objs[H.objs[r].status]
    IN  IF se.Extra = NilMap THEN EmptyMap ELSE H.maps[se.Extra].content

\* (w *withStatus) Extra: the content of the new map it returns
WithStatusExtra(H, r) ==
    LET se == H.objs[H.objs[r].status]
    IN  IF se.Extra = NilMap THEN EmptyMap
        ELSE LET extra == H.maps[se.Extra].content
             IN  IF H.objs[r].stack # Empty
                 THEN MapSet(extra, S("stack"), H.objs[r].stack)
                 ELSE extra

\* err.Extra() through the StatusError interface
ExtraOf(H, r) ==
    IF H.objs[r].kind = "withStatus" THEN WithStatusExtra(H, r) ELSE StatusErrorExtra(H, r)

\* the call e.Extra() on a *statusError: the heap after it and the map returned
StatusErrorExtraCall(H, r) ==
    IF H.objs[r].Extra = NilMap
    THEN [H |-> AllocMap(H, EmptyMap, "Extra"), map |-> NewMapRef(H)]
    ELSE [H |-> H, map |-> H.objs[r].Extra]

\* WithStatusExtraCall without the copy: the stack goes into the stored map, which is
\* returned
WithStatusExtraCall_NoCopy(H, r) ==
    LET stored == H.objs[H.objs[r].status].Extra
    IN  IF stored = NilMap
        THEN [H |-> AllocMap(H, EmptyMap, "Extra:" \o ToString(r)), map |-> NewMapRef(H)]
        ELSE [H |-> [H EXCEPT !.maps[stored].content = MapSet(@, S("stack"), H.objs[r].stack)],
              map |-> stored]

\* the call w.Extra() on a *withStatus: the heap after it and the map returned
WithStatusExtraCall(H, r) ==
    [H |-> AllocMap(H, WithStatusExtra(H, r), "Extra:" \o ToString(r)), map |-> NewMapRef(H)]

\* the call err.Extra() through the StatusError interface
ExtraCall(H, r) ==
    IF H.objs[r].kind = "withStatus" THEN WithStatusExtraCall(H, r) ELSE StatusErrorExtraCall(H, r)

\* (w *withStatus) Stack
Stack(H, r) == H.objs[r].stack

\* (w *withStatus) Cause
Cause(H, r) == H.objs[r].cause

\* (w *withStatus) Unwrap
Unwrap(H, r) == H.objs[r].cause

\* errors.New("original").Error()
PlainText == S("original")

\* Error of a *withStatus without the cause
Error_MessageOnly(H, r) ==
    IF r = PlainErr THEN PlainText ELSE H.objs[Inner(H, r)].message

RECURSIVE Error(_, _)
\* err.Error(): (e *statusError) Error, (w *withStatus) Error, where %v of the cause
\* is the cause's Error()
Error(H, r) ==
    IF r = PlainErr THEN PlainText
    ELSE IF H.objs[r].kind = "withStatus"
         THEN IF H.objs[r].cause # NilRef
              THEN H.objs[H.objs[r].status].message \o <<": ">> \o Error(H, H.objs[r].cause)
              ELSE H.objs[H.objs[r].status].message
         ELSE H.objs[r].message

\* what the StatusError interface shows of r
View(H, r) ==
    IF r = NilRef
    THEN [nil |-> TRUE, Code |-> 0, Msg |-> Empty, IsAffectStability |-> FALSE, Extra |-> EmptyMap]
    ELSE [nil |-> FALSE, Code |-> Code(H, r), Msg |-> Msg(H, r),
          IsAffectStability |-> IsAffectStability(H, r), Extra |-> ExtraOf(H, r)]

\* the data argument of NewStatusError (an interface{}):
\*   "nil"     untyped nil
\*   "anymap"  map[string]interface{} with fields `any`
\*   "strmap"  map[string]string, the map `ref` (NilMap for a nil map)
\*   "other"   any other value
DataNil == [t |-> "nil", any |-> EmptyMap, ref |-> NilMap]
DataAny(fields) == [t |-> "anymap", any |-> fields, ref |-> NilMap]
DataStr(ref) == [t |-> "strmap", any |-> EmptyMap, ref |-> ref]
DataOther == [t |-> "other", any |-> EmptyMap, ref |-> NilMap]

\* NewStatusError(code, message, data): the heap with the new *statusError, which is
\* NewObjRef(H)
NewStatusError(H, code, message, data) ==
    LET msg == IF message = Empty THEN GetMessage(code, Empty) ELSE message
        def == GetCodeDefinition(code)
    IN  IF data.t = "strmap"
        THEN AllocObj(H, StatusErrorObj(code, msg, def.IsAffectStability, data.ref, "NewStatusError"))
        ELSE LET extra == IF data.t = "anymap"
                          THEN [k \in DOMAIN data.any |-> Sprint(data.any[k])]
                          ELSE EmptyMap
                 H1 == AllocMap(H, extra, "make")
             IN  AllocObj(H1, StatusErrorObj(code, msg, def.IsAffectStability, NewMapRef(H),
                                             "NewStatusError"))

\* history: the exported function that made object r
MadeBy(H, r, by) == [H EXCEPT !.objs[r].by = by]

----------------------------------------------------------------------------
(* The withStatus file: Options and the constructors of the Stack-Wrapped Error *)

\* Param(k, v) and Extra(k, v) as values; applied by ApplyOpt
Param(k, v) == [t |-> "Param", k |-> k, v |-> v]
Extra(k, v) == [t |-> "Extra", k |-> k, v |-> v]

\* the closure Param(k, v) returns, run on ws
ApplyParam(H, ws, k, v) ==
    IF ws = NilRef \/ H.objs[ws].status = NilRef THEN H
    ELSE [H EXCEPT !.objs[H.objs[ws].status].message = ReplaceAll(@, Placeholder(k), v)]

\* the closure Extra(k, v) returns, run on ws
ApplyExtra(H, ws, k, v) ==
    IF ws = NilRef \/ H.objs[ws].status = NilRef THEN H
    ELSE LET se == H.objs[ws].status
             H1 == IF H.objs[se].Extra = NilMap
                   THEN [AllocMap(H, EmptyMap, "make") EXCEPT !.objs[se].Extra = NewMapRef(H)]
                   ELSE H
         IN  [H1 EXCEPT !.maps[H1.objs[se].Extra].content = MapSet(@, k, v)]

\* opt(ws)
ApplyOpt(H, ws, opt) ==
    IF opt.t = "Param" THEN ApplyParam(H, ws, opt.k, opt.v) ELSE ApplyExtra(H, ws, opt.k, opt.v)

RECURSIVE ApplyOpts_Reversed(_, _, _)
\* ApplyOpts running the options last to first
ApplyOpts_Reversed(H, ws, opts) ==
    IF opts = <<>> THEN H
    ELSE ApplyOpt(ApplyOpts_Reversed(H, ws, Tail(opts)), ws, Head(opts))

RECURSIVE ApplyOpts(_, _, _)
\* for _, opt := range opts { opt(ws) }
ApplyOpts(H, ws, opts) ==
    IF opts = <<>> THEN H
    ELSE ApplyOpts(ApplyOpt(H, ws, Head(opts)), ws, Tail(opts))

\* WithStack without the test for an error that is wrapped already
WithStack_AlwaysWraps(H, err, stack) ==
    IF err = NilRef THEN [H |-> H, ret |-> NilRef]
    ELSE [H |-> AllocObj(H, WithStatusObj(Inner(H, err), stack, NilRef, "WithStack")),
          ret |-> NewObjRef(H)]

\* WithStack(err) for a non-nil err: the heap after the call and the value returned.
\* errors.As(err, &ws) finds err itself when it is a *withStatus; a *statusError has
\* no Unwrap, so it is wrapped.
WithStack(H, err, stack) ==
    IF err = NilRef THEN [H |-> H, ret |-> NilRef]
    ELSE IF H.objs[err].kind = "withStatus" THEN [H |-> H, ret |-> err]
    ELSE [H |-> AllocObj(H, WithStatusObj(err, stack, NilRef, "WithStack")), ret |-> NewObjRef(H)]

\* WrapWithStatus(err, code, message, data): NewStatusError always returns a
\* *statusError, so the second branch of the type tests is the one taken
WrapWithStatus(H, err, code, message, data, stack) ==
    IF err = NilRef THEN [H |-> H, ret |-> NilRef]
    ELSE LET H1 == MadeBy(NewStatusError(H, code, message, data), NewObjRef(H), "WrapWithStatus")
             se == NewObjRef(H)
         IN  [H |-> AllocObj(H1, WithStatusObj(se, stack, err, "WrapWithStatus")),
              ret |-> NewObjRef(H1)]

\* the body NewWithStatus and WrapWithStatusOptions share: se, ws, then the options
BuildWithOptions(H, cause, code, message, opts, stack, by) ==
    LET msg == IF message = Empty THEN GetMessage(code, Empty) ELSE message
        def == GetCodeDefinition(code)
        H1 == AllocMap(H, EmptyMap, "make")
        H2 == AllocObj(H1, StatusErrorObj(code, msg, def.IsAffectStability, NewMapRef(H), by))
        H3 == AllocObj(H2, WithStatusObj(NewObjRef(H1), stack, cause, by))
        ws == NewObjRef(H2)
    IN  [H |-> ApplyOpts(H3, ws, opts), ret |-> ws]

\* NewWithStatus(code, message, opts...)
NewWithStatus(H, code, message, opts, stack) ==
    BuildWithOptions(H, NilRef, code, message, opts, stack, "NewWithStatus")

\* WrapWithStatusOptions(err, code, message, opts...)
WrapWithStatusOptions(H, err, code, message, opts, stack) ==
    IF err = NilRef THEN [H |-> H, ret |-> NilRef]
    ELSE BuildWithOptions(H, err, code, message, opts, stack, "WrapWithStatusOptions")

----------------------------------------------------------------------------
(* The caller's inputs *)

\* codes: the five the codec maps, internal-error, another registered one, one unregistered
CodeUnregistered == 99999
Codes ==
    {CodeInvalidParam, CodeUnauthorized, CodeForbidden, CodeNotFound, CodeAlreadyExists,
     CodeInternalError, CodeUserNotFound, CodeUnregistered}

Bad == S(BadByte)
PK == <<"{", "k", "}">>
PJ == <<"{", "j", "}">>

\* messages: empty, plain, a lone placeholder, one placeholder twice, two placeholders,
\* and one that is not UTF-8
Msgs == {Empty, S("m"), PK, <<"user ">> \o PK \o <<"+">> \o PK, PJ \o PK, Bad}

\* options: a Param whose value brings in another placeholder, one that fills it,
\* one with an empty value; Extra entries with a repeated key and the "stack" key
Opts ==
    {Param(S("k"), PJ), Param(S("j"), S("x")), Param(S("k"), Empty),
     Extra(S("a"), S("v")), Extra(S("a"), S("w")), Extra(S("stack"), S("v"))}

RECURSIVE SeqsUpTo(_, _)
\* the sequences over set of length at most n
SeqsUpTo(set, n) ==
    IF n = 0 THEN {<<>>}
    ELSE LET shorter == SeqsUpTo(set, n - 1)
         IN  shorter \cup {Append(s, x) : s \in shorter, x \in set}

\* string maps passed as data
StrMaps ==
    {EmptyMap,
     [k \in {S("a")} |-> S("v")],
     [k \in {S("business_code"), S("business_msg")} |-> S("7")],
     [k \in {S("a"), S("stack")} |-> S("v")],
     [k \in {S("a")} |-> Bad]}

\* heterogeneous maps passed as data
AnyMaps ==
    {EmptyMap,
     [k \in {S("a"), S("n")} |-> IF k = S("a") THEN StrV(S("v")) ELSE NumV(7)]}

\* what the caller passes as data: .t as for the data argument, with "newstrmap" for a
\* string map the caller makes for the call
DataSpec(t, any, str) == [t |-> t, any |-> any, str |-> str]
DataSpecs ==
    {DataSpec("nil", EmptyMap, EmptyMap), DataSpec("other", EmptyMap, EmptyMap),
     DataSpec("nilstrmap", EmptyMap, EmptyMap)}
    \cup {DataSpec("anymap", m, EmptyMap) : m \in AnyMaps}
    \cup {DataSpec("newstrmap", EmptyMap, m) : m \in StrMaps}

\* captureStack(2): runtime.Callers never returns 0 frames for the caller of an
\* exported constructor, so the string is not empty; it names the call site, and
\* each call of a run is made from another site
captureStack(H) == S("stack@site" \o ToString(Len(H.objs)))

ArgsOf(code, message, data, opts) == [code |-> code, message |-> message, data |-> data, opts |-> opts]

\* the inputs of a run: data varies with no options, the options vary with nil data
WideArgs ==
    {ArgsOf(c, m, d, <<>>) : c \in Codes, m \in Msgs, d \in DataSpecs}
    \cup {ArgsOf(c, m, DataSpec("nil", EmptyMap, EmptyMap), o) :
            c \in Codes, m \in Msgs, o \in SeqsUpTo(Opts, MaxOpts)}

NoStatus == [code |-> "none", msg |-> Empty, details |-> <<>>]
NoCall == [op |-> "none", arg |-> NilRef, ret |-> NilRef]
Call(op, arg, ret) == [op |-> op, arg |-> arg, ret |-> ret]

Heap == [objs |-> objs, maps |-> maps]

\* no error was encoded into st
NothingSent == [by |-> "none", view |-> View(Heap, NilRef)]

InitWith(a) ==
    /\ objs = <<>>
    /\ maps = <<>>
    /\ held = {}
    /\ st = NoStatus
    /\ sent = NothingSent
    /\ args = a
    /\ last = NoCall

\* the heap fits the bounds
Fits(H) == Len(H.objs) <= MaxObjs /\ Len(H.maps) <= MaxMaps

\* the errors the caller holds: every object but the *statusError a constructor of a
\* Stack-Wrapped Error built inside it
Visible ==
    {r \in 1..Len(objs) :
        ~ \E w \in 1..Len(objs) :
            objs[w].kind = "withStatus" /\ objs[w].by # "WithStack" /\ objs[w].status = r}

\* the heap and the data argument after the caller has prepared what it passes
PassData ==
    LET d == args.data
    IN  IF d.t = "newstrmap"
        THEN {[H |-> AllocMap(Heap, d.str, "caller"), data |-> DataStr(NewMapRef(Heap)),
               held |-> held \cup {NewMapRef(Heap)}]}
             \cup {[H |-> Heap, data |-> DataStr(m), held |-> held] : m \in held}
        ELSE {[H |-> Heap, held |-> held,
               data |-> CASE d.t = "nil" -> DataNil
                          [] d.t = "other" -> DataOther
                          [] d.t = "nilstrmap" -> DataStr(NilMap)
                          [] OTHER -> DataAny(d.any)]}

\* the step to heap H with the caller holding maps h
Update(H, h) ==
    /\ Fits(H)
    /\ objs' = H.objs
    /\ maps' = H.maps
    /\ held' = h

----------------------------------------------------------------------------
(* The calls *)

CallNewStatusError ==
    \E p \in PassData :
        /\ Update(NewStatusError(p.H, args.code, args.message, p.data), p.held)
        /\ last' = Call("NewStatusError", NilRef, NewObjRef(p.H))
        /\ UNCHANGED <<st, sent, args>>

CallWithStack ==
    \E err \in Visible :
        LET r == WithStack(Heap, err, captureStack(Heap))
        IN  /\ Update(r.H, held)
            /\ last' = Call("WithStack", err, r.ret)
            /\ UNCHANGED <<st, sent, args>>

\* the causes a caller can pass: an error that is no StatusError, or one it holds
Causes == {PlainErr} \cup Visible

CallWrapWithStatus ==
    \E err \in Causes, p \in PassData :
        LET r == WrapWithStatus(p.H, err, args.code, args.message, p.data, captureStack(Heap))
        IN  /\ Update(r.H, p.held)
            /\ last' = Call("WrapWithStatus", err, r.ret)
            /\ UNCHANGED <<st, sent, args>>

CallNewWithStatus ==
    LET r == NewWithStatus(Heap, args.code, args.message, args.opts, captureStack(Heap))
        IN  /\ Update(r.H, held)
            /\ last' = Call("NewWithStatus", NilRef, r.ret)
            /\ UNCHANGED <<st, sent, args>>

CallWrapWithStatusOptions ==
    \E err \in Causes :
        LET r == WrapWithStatusOptions(Heap, err, args.code, args.message, args.opts,
                                       captureStack(Heap))
        IN  /\ Update(r.H, held)
            /\ last' = Call("WrapWithStatusOptions", err, r.ret)
            /\ UNCHANGED <<st, sent, args>>

\* err.Extra() by the caller, who then holds the map returned
CallExtra ==
    \E err \in Visible :
        LET r == ExtraCall(Heap, err)
        IN  /\ Update(r.H, held \cup {r.map})
            /\ last' = Call("Extra", err, NilRef)
            /\ UNCHANGED <<st, sent, args>>

\* what the caller writes into maps it holds
MutKeys == {S("a")}
MutVals == {S("changed")}

\* m[k] = v by the caller on a map it holds
MapWrite ==
    \E m \in held, k \in MutKeys, v \in MutVals :
        /\ maps' = [maps EXCEPT ![m].content = MapSet(@, k, v)]
        /\ last' = Call("write", NilRef, NilRef)
        /\ UNCHANGED <<objs, held, st, sent, args>>

\* delete(m, k) by the caller on a map it holds
MapRemove ==
    \E m \in held, k \in MutKeys :
        /\ k \in DOMAIN maps[m].content
        /\ maps' = [maps EXCEPT ![m].content = MapDelete(@, k)]
        /\ last' = Call("delete", NilRef, NilRef)
        /\ UNCHANGED <<objs, held, st, sent, args>>

CallToGRPCStatus ==
    \E err \in Visible :
        /\ st' = ToGRPCStatus(View(Heap, err))
        /\ sent' = [by |-> objs[err].by, view |-> View(Heap, err)]
        /\ last' = Call("ToGRPCStatus", err, NilRef)
        /\ UNCHANGED <<objs, maps, held, args>>

\* FromGRPCStatus(st): extraData is a map it made, or nil; NewStatusError keeps it
CallFromGRPCStatus ==
    /\ st # NoStatus
    /\ LET a == FromGRPCStatus(st)
           H1 == IF a.extraNil THEN Heap ELSE AllocMap(Heap, a.extraData, "make")
           data == DataStr(IF a.extraNil THEN NilMap ELSE NewMapRef(Heap))
           H2 == MadeBy(NewStatusError(H1, a.code, a.message, data), NewObjRef(H1),
                        "FromGRPCStatus")
       IN  /\ Update(H2, held)
           /\ last' = Call("FromGRPCStatus", NilRef, NewObjRef(H1))
    /\ UNCHANGED <<st, sent, args>>

\* WithStack(nil)
CallWithStackNil ==
    LET r == WithStack(Heap, NilRef, captureStack(Heap))
    IN  /\ Update(r.H, held)
        /\ last' = Call("WithStack", NilRef, r.ret)
        /\ UNCHANGED <<st, sent, args>>

\* WrapWithStatus(nil, code, message, data)
CallWrapWithStatusNil ==
    \E p \in PassData :
        LET r == WrapWithStatus(p.H, NilRef, args.code, args.message, p.data, captureStack(Heap))
        IN  /\ Update(r.H, p.held)
            /\ last' = Call("WrapWithStatus", NilRef, r.ret)
            /\ UNCHANGED <<st, sent, args>>

\* WrapWithStatusOptions(nil, code, message, opts...)
CallWrapWithStatusOptionsNil ==
    LET r == WrapWithStatusOptions(Heap, NilRef, args.code, args.message, args.opts,
                                   captureStack(Heap))
    IN  /\ Update(r.H, held)
        /\ last' = Call("WrapWithStatusOptions", NilRef, r.ret)
        /\ UNCHANGED <<st, sent, args>>

\* ToGRPCStatus(nil)
CallToGRPCStatusNil ==
    /\ st' = ToGRPCStatus(View(Heap, NilRef))
    /\ sent' = NothingSent
    /\ last' = Call("ToGRPCStatus", NilRef, NilRef)
    /\ UNCHANGED <<objs, maps, held, args>>

\* ToGRPCError(err) on nil or on an error the caller holds; st is the status of the
\* error returned, NoStatus when nil was returned
CallToGRPCError ==
    \E err \in {NilRef} \cup Visible :
        LET r == ToGRPCError(View(Heap, err))
        IN  /\ st' = IF r.nil THEN NoStatus ELSE r.status
            /\ sent' = NothingSent
            /\ last' = Call("ToGRPCError", err, NilRef)
            /\ UNCHANGED <<objs, maps, held, args>>

\* gRPC codes a peer can send: the five the codec maps back, and three it does not
GrpcCodes ==
    {"InvalidArgument", "Unauthenticated", "PermissionDenied", "NotFound", "AlreadyExists",
     "Internal", "Unknown", "Unavailable"}

\* messages a peer can send
PeerMsgs == {Empty, S("m")}

Fields1(k, v) == [x \in {k} |-> v]
Fields2(k1, v1, k2, v2) == [x \in {k1, k2} |-> IF x = k1 THEN v1 ELSE v2]

\* details a peer can attach: a message that is no Struct, the empty Struct, metadata
\* with a string and with a number, business details (internal-error, another code, one
\* without business_msg, one whose business_msg is no string), a business_code that
\* is no number, and a business_msg without a business_code
PeerDetails ==
    {[type |-> "Other", fields |-> EmptyMap],
     [type |-> "Struct", fields |-> EmptyMap],
     [type |-> "Struct", fields |-> Fields1(S("a"), StrV(S("v")))],
     [type |-> "Struct", fields |-> Fields2(S("a"), StrV(S("w")), S("n"), NumV(7))],
     [type |-> "Struct", fields |-> ErrorInfo(CodeInternalError, S("b"))],
     [type |-> "Struct", fields |-> ErrorInfo(CodeUserNotFound, S("c"))],
     [type |-> "Struct", fields |-> Fields1(S("business_code"), NumV(CodeNotFound))],
     [type |-> "Struct", fields |-> Fields2(S("business_code"), NumV(CodeForbidden),
                                            S("business_msg"), NumV(7))],
     [type |-> "Struct", fields |-> Fields1(S("business_code"), StrV(S("1004")))],
     [type |-> "Struct", fields |-> Fields1(S("business_msg"), StrV(S("b")))]}

\* status.New(c, msg) by a peer
CallStatusNew ==
    \E c \in GrpcCodes, msg \in PeerMsgs :
        /\ st' = StatusNew(c, msg)
        /\ sent' = NothingSent
        /\ last' = Call("status.New", NilRef, NilRef)
        /\ UNCHANGED <<objs, maps, held, args>>

\* st.WithDetails(detail) by a peer
CallWithDetails ==
    \E detail \in PeerDetails :
        /\ st # NoStatus
        /\ Len(st.details) < MaxDetails
        /\ st' = [st EXCEPT !.details = Append(@, detail)]
        /\ sent' = NothingSent
        /\ last' = Call("WithDetails", NilRef, NilRef)
        /\ UNCHANGED <<objs, maps, held, args>>

----------------------------------------------------------------------------
(* Specifications *)

\* The error's life in one process: build, wrap, read the metadata, write the maps
\* the caller holds.
SmallArgs ==
    {ArgsOf(CodeNotFound, S("m"), d, <<>>) :
        d \in {DataSpec("nil", EmptyMap, EmptyMap), DataSpec("nilstrmap", EmptyMap, EmptyMap),
               DataSpec("newstrmap", EmptyMap, Fields1(S("a"), S("v"))),
               DataSpec("anymap", Fields1(S("n"), NumV(7)), EmptyMap)}}
    \cup {ArgsOf(CodeInternalError, PK, DataSpec("nil", EmptyMap, EmptyMap),
                 <<Extra(S("a"), S("v")), Extra(S("stack"), S("v")), Param(S("k"), S("x"))>>)}

Init == \E a \in SmallArgs : InitWith(a)

\* the heap after the step fits the bound of this specification
LiveFits == Len(objs') <= MaxLive

Next ==
    \/ CallNewStatusError /\ LiveFits
    \/ CallWithStack /\ LiveFits
    \/ CallWrapWithStatus /\ LiveFits
    \/ CallNewWithStatus /\ LiveFits
    \/ CallWrapWithStatusOptions /\ LiveFits
    \/ CallExtra
    \/ MapWrite
    \/ MapRemove

Spec == Init /\ [][Next]_vars

\* One error built from any of the inputs, encoded, and decoded on the other side.
InitCodec == \E a \in WideArgs : InitWith(a)

BuildOne ==
    /\ objs = <<>>
    /\ \/ CallNewStatusError
       \/ CallWrapWithStatus
       \/ CallNewWithStatus
       \/ CallWrapWithStatusOptions

NextCodec ==
    \/ BuildOne
    \/ CallToGRPCStatus
    \/ CallFromGRPCStatus

SpecCodec == InitCodec /\ [][NextCodec]_vars

\* Decoding what a peer sent.
InitDecode == InitWith(ArgsOf(CodeNotFound, S("m"), DataSpec("nil", EmptyMap, EmptyMap), <<>>))

\* the peer builds the status before this side decodes it
PeerBuilds ==
    /\ objs = <<>>
    /\ \/ CallStatusNew
       \/ CallWithDetails

NextDecode ==
    \/ PeerBuilds
    \/ CallFromGRPCStatus

SpecDecode == InitDecode /\ [][NextDecode]_vars

\* Errors wrapped around errors: the constructors alone, called in any order on the
\* errors built so far and on nil, and the encoders called on nil.
ChainArgs ==
    {ArgsOf(CodeNotFound, m, DataSpec("nil", EmptyMap, EmptyMap), o) :
        m \in {S("m"), PK}, o \in {<<>>, <<Param(S("k"), S("x"))>>}}

InitChain == \E a \in ChainArgs : InitWith(a)

NextChain ==
    \/ CallNewStatusError
    \/ CallWithStack
    \/ CallWrapWithStatus
    \/ CallNewWithStatus
    \/ CallWrapWithStatusOptions
    \/ CallWithStackNil
    \/ CallWrapWithStatusNil
    \/ CallWrapWithStatusOptionsNil
    \/ CallToGRPCStatusNil
    \/ CallToGRPCError

SpecChain == InitChain /\ [][NextChain]_vars

----------------------------------------------------------------------------
(* Claims about the codec *)

Constructors == {"NewStatusError", "WrapWithStatus", "NewWithStatus", "WrapWithStatusOptions"}

\* the status was just decoded into last.ret
Decoded == last.op = "FromGRPCStatus"

\* the status just decoded was encoded from an error a constructor in `by` built
RoundTrip(by) == Decoded /\ sent.by \in by

ValidMap(m) == \A k \in DOMAIN m : ValidUTF8(k) /\ ValidUTF8(m[k])

FiveMapped == {CodeInvalidParam, CodeUnauthorized, CodeForbidden, CodeNotFound, CodeAlreadyExists}

\* C1: code and message round-trip.  For every error e a constructor built,
\* d = FromGRPCStatus(ToGRPCStatus(e)) has d.Code() = e.Code() and d.Msg() = e.Msg(),
\* and a code outside the five mapped ones travels as Internal.  (Stated for the
\* messages that are valid UTF-8, which the claim includes.)
C1_CodeMsgRoundTrip ==
    (RoundTrip(Constructors) /\ ValidUTF8(sent.view.Msg)) =>
        /\ Code(Heap, last.ret) = sent.view.Code
        /\ Msg(Heap, last.ret) = sent.view.Msg
        /\ (sent.view.Code \notin FiveMapped => st.code = "Internal")

\* C2 as claimed: for every error e NewStatusError built, with any string metadata,
\* the decoded d has d.Extra() = e.Extra() and the same IsAffectStability().
C2_Original ==
    RoundTrip({"NewStatusError"}) =>
        /\ ExtraOf(Heap, last.ret) = sent.view.Extra
        /\ IsAffectStability(Heap, last.ret) = sent.view.IsAffectStability

\* C2, amended: the same, for an e whose message and metadata keys and values are
\* valid UTF-8.
C2_MetadataRoundTrip ==
    (RoundTrip({"NewStatusError"}) /\ ValidUTF8(sent.view.Msg) /\ ValidMap(sent.view.Extra)) =>
        /\ ExtraOf(Heap, last.ret) = sent.view.Extra
        /\ IsAffectStability(Heap, last.ret) = sent.view.IsAffectStability

\* an error with a "business_code" metadata key and an unmapped code went round
C2_Witness ==
    /\ RoundTrip({"NewStatusError"})
    /\ S("business_code") \in DOMAIN sent.view.Extra
    /\ sent.view.Code = CodeUserNotFound
    /\ ExtraOf(Heap, last.ret) = sent.view.Extra

\* the structured details of the status that carry a numeric business_code
BizDetails == {i \in 1..Len(st.details) :
                 st.details[i].type = "Struct" /\ HasBizCode(st.details[i].fields)}

LastOf(set) == CHOOSE i \in set : \A j \in set : j <= i

\* C3: detail precedence on decode.  When a detail carries a numeric business_code,
\* FromGRPCStatus returns the business_code of the last such detail as Code(),
\* whatever the gRPC code and whatever the business code.
C3_DetailPrecedence ==
    (Decoded /\ BizDetails # {}) =>
        Code(Heap, last.ret) = st.details[LastOf(BizDetails)].fields[S("business_code")].n

\* the table of the claim, business code -> gRPC code
C4_Table(code) ==
    IF code = 1001 THEN "InvalidArgument"
    ELSE IF code = 1002 THEN "Unauthenticated"
    ELSE IF code = 1003 THEN "PermissionDenied"
    ELSE IF code = 1004 THEN "NotFound"
    ELSE IF code = 1005 THEN "AlreadyExists"
    ELSE "Internal"

C4_Meta(extra) == [type |-> "Struct", fields |-> [k \in DOMAIN extra |-> StrV(extra[k])]]

C4_Biz(code, msg) ==
    [type |-> "Struct",
     fields |-> [k \in {S("business_code"), S("business_msg")} |->
                    IF k = S("business_msg") THEN StrV(msg) ELSE NumV(code)]]

\* C4 as claimed: the status has the table's code, e.Msg(), and as details the
\* metadata (exactly when e.Extra() is not empty) followed always by the business detail.
C4_Original ==
    (last.op = "ToGRPCStatus") =>
        /\ st.code = C4_Table(sent.view.Code)
        /\ st.msg = sent.view.Msg
        /\ st.details =
              (IF sent.view.Extra # EmptyMap THEN <<C4_Meta(sent.view.Extra)>> ELSE <<>>)
              \o <<C4_Biz(sent.view.Code, sent.view.Msg)>>

\* C4, amended: the status has the table's code and e.Msg(); its details are the
\* metadata, exactly when e.Extra() is not empty and all its keys and values are valid
\* UTF-8, followed by the business detail, exactly when e.Msg() is valid UTF-8.
C4_EncodeShape ==
    (last.op = "ToGRPCStatus") =>
        /\ st.code = C4_Table(sent.view.Code)
        /\ st.msg = sent.view.Msg
        /\ st.details =
              (IF sent.view.Extra # EmptyMap /\ ValidMap(sent.view.Extra)
               THEN <<C4_Meta(sent.view.Extra)>> ELSE <<>>)
              \o (IF ValidUTF8(sent.view.Msg)
                  THEN <<C4_Biz(sent.view.Code, sent.view.Msg)>> ELSE <<>>)

\* an already-exists error with metadata was encoded with both details
C4_Witness ==
    /\ last.op = "ToGRPCStatus"
    /\ sent.view.Code = CodeAlreadyExists
    /\ st.code = "AlreadyExists"
    /\ Len(st.details) = 2

\* the table of the claim, gRPC code -> business code
C5_Table(c) ==
    IF c = "InvalidArgument" THEN 1001
    ELSE IF c = "Unauthenticated" THEN 1002
    ELSE IF c = "PermissionDenied" THEN 1003
    ELSE IF c = "NotFound" THEN 1004
    ELSE IF c = "AlreadyExists" THEN 1005
    ELSE 1006

\* C5 as claimed: with no detail carrying a business code, Code() is the inverse
\* table's and Msg() is the status message, for every status message.
C5_Original ==
    (Decoded /\ BizDetails = {}) =>
        /\ Code(Heap, last.ret) = C5_Table(st.code)
        /\ Msg(Heap, last.ret) = st.msg

\* C5, amended: with no detail carrying a business code, Code() is the inverse
\* table's, and Msg() is the status message when that is not empty, the registry's
\* default message of the resulting code when it is empty.
C5_DecodeWithoutDetail ==
    (Decoded /\ BizDetails = {}) =>
        /\ Code(Heap, last.ret) = C5_Table(st.code)
        /\ Msg(Heap, last.ret) =
              IF st.msg # Empty THEN st.msg
              ELSE GetCodeDefinition(C5_Table(st.code)).Message

\* a PermissionDenied status with only a metadata detail was decoded
C5_Witness ==
    /\ Decoded
    /\ BizDetails = {}
    /\ Len(st.details) > 0
    /\ st.code = "PermissionDenied"
    /\ Code(Heap, last.ret) = CodeForbidden

----------------------------------------------------------------------------
(* Claims about the Stack-Wrapped Error and the Options *)

Wrappers == {w \in 1..Len(objs) : objs[w].kind = "withStatus"}

HeapNext == [objs |-> objs', maps |-> maps']

\* C6: the map Extra() returns on a Stack-Wrapped Error always has the key "stack"
\* with a non-empty value.
C6_StackAlwaysPresent ==
    \A w \in Wrappers :
        /\ S("stack") \in DOMAIN WithStatusExtra(Heap, w)
        /\ WithStatusExtra(Heap, w)[S("stack")] # Empty

\* the maps w.Extra() returned
ReturnedBy(w) == {m \in 1..Len(maps) : maps[m].origin = "Extra:" \o ToString(w)}

\* C7: defensive copy on read.  A call of w.Extra(), and a write or delete by the
\* caller on a map w.Extra() returned, leave what w.Extra() returns and the stored
\* metadata map of the inner Status Error as they were.
C7_DefensiveCopy ==
    [][\A w \in Wrappers :
          ( \/ (last'.op = "Extra" /\ last'.arg = w)
            \/ \E m \in ReturnedBy(w) : maps'[m].content # maps[m].content )
          => /\ WithStatusExtra(HeapNext, w) = WithStatusExtra(Heap, w)
             /\ LET stored == objs[objs[w].status].Extra
                IN  stored # NilMap => maps'[stored].content = maps[stored].content]_vars

\* w.Extra() was called, the map returned was written to, and w.Extra() was called
\* again: the second map shows what w.Extra() returns, the first no longer does
C7_Witness ==
    \E w \in Wrappers : \E m1, m2 \in ReturnedBy(w) :
        /\ m1 < m2
        /\ last.op = "Extra" /\ last.arg = w
        /\ maps[m1].content # WithStatusExtra(Heap, w)
        /\ maps[m2].content = WithStatusExtra(Heap, w)
        /\ S("stack") \in DOMAIN maps[m2].content

\* C8: idempotent wrap.  WithStack on a Stack-Wrapped Error returns that same error
\* (the same reference), builds nothing and changes nothing on the heap.
C8_IdempotentWrap ==
    [][(last'.op = "WithStack" /\ last'.arg # NilRef /\ objs[last'.arg].kind = "withStatus")
          => (last'.ret = last'.arg /\ objs' = objs /\ maps' = maps)]_vars

\* WithStack was applied to the result of WithStack
C8_Witness ==
    /\ last.op = "WithStack"
    /\ last.arg # NilRef
    /\ objs[last.arg].kind = "withStatus"
    /\ objs[last.arg].by = "WithStack"
    /\ last.ret = last.arg

\* a constructor with options has just returned last.ret
BuiltWithOptions == last.op \in {"NewWithStatus", "WrapWithStatusOptions"}

ExtraIdx(k) == {i \in 1..Len(args.opts) : args.opts[i].t = "Extra" /\ args.opts[i].k = k}
ExtraKeys == {args.opts[i].k : i \in {j \in 1..Len(args.opts) : args.opts[j].t = "Extra"}}

RECURSIVE C9_Msg(_)
\* the message after the first i options: each Param rewrites what the ones before left
C9_Msg(i) ==
    IF i = 0 THEN (IF args.message = Empty THEN GetCodeDefinition(args.code).Message
                   ELSE args.message)
    ELSE IF args.opts[i].t = "Param"
         THEN ReplaceAll(C9_Msg(i - 1), <<"{">> \o args.opts[i].k \o <<"}">>, args.opts[i].v)
         ELSE C9_Msg(i - 1)

\* the order of the options on three messages, written out
C9_Examples ==
    /\ (args.message = PJ \o PK /\ args.opts = <<Param(S("k"), PJ), Param(S("j"), S("x"))>>)
          => Msg(Heap, last.ret) = <<"x", "x">>
    /\ (args.message = PJ \o PK /\ args.opts = <<Param(S("j"), S("x")), Param(S("k"), PJ)>>)
          => Msg(Heap, last.ret) = <<"x", "{", "j", "}">>
    /\ (args.message = <<"user ", "{", "k", "}", "+", "{", "k", "}">>
        /\ args.opts = <<Param(S("k"), Empty)>>)
          => Msg(Heap, last.ret) = <<"user ", "+">>

C9_Order(keys) ==
    BuiltWithOptions =>
        /\ \A k \in keys :
              /\ k \in DOMAIN ExtraOf(Heap, last.ret)
              /\ ExtraOf(Heap, last.ret)[k] = args.opts[LastOf(ExtraIdx(k))].v
        /\ Msg(Heap, last.ret) = C9_Msg(Len(args.opts))
        /\ C9_Examples

\* C9 as claimed: options run in argument order: the metadata value of every key k
\* given by an Extra is the value of the last Extra(k, .), and each Param rewrites the
\* message as the options before it left it.
C9_Original == C9_Order(ExtraKeys)

\* C9, amended: the same, for every key k given by an Extra other than "stack".
C9_OptionsInOrder == C9_Order(ExtraKeys \ {S("stack")})

\* a Param filled the placeholder the Param before it brought in
C9_Witness ==
    /\ BuiltWithOptions
    /\ args.message = PJ \o PK
    /\ args.opts = <<Param(S("k"), PJ), Param(S("j"), S("x"))>>
    /\ Msg(Heap, last.ret) = <<"x", "x">>

\* C10: code and stability are fixed by the constructor: every error a constructor
\* built with code c has Code() = c and IsAffectStability() = the registry's flag
\* for c (true for an unregistered c), whatever the message, data and options, and
\* in every later state.
C10_CodeStabilityFixed ==
    \A r \in 1..Len(objs) :
        objs[r].by \in Constructors =>
            /\ Code(Heap, r) = args.code
            /\ IsAffectStability(Heap, r) =
                  IF args.code \in DOMAIN CodeDefinitions
                  THEN CodeDefinitions[args.code].IsAffectStability
                  ELSE TRUE

\* an error with an unregistered code was built with options and then encoded
C10_Witness ==
    /\ last.op = "ToGRPCStatus"
    /\ objs[last.arg].by = "WrapWithStatusOptions"
    /\ args.code = CodeUnregistered
    /\ Len(args.opts) = MaxOpts
    /\ IsAffectStability(Heap, last.arg)

\* the options have an Extra("stack", .)
StackOptions == ExtraIdx(S("stack")) # {}

\* C11: reserved stack key.  For every Stack-Wrapped Error built by NewWithStatus or
\* WrapWithStatusOptions with an Extra("stack", v) among its options, at any position,
\* the "stack" entry of Extra() is the captured stack Stack() returns, and not v.
C11_ReservedStackKey ==
    \A w \in Wrappers :
        (objs[w].by \in {"NewWithStatus", "WrapWithStatusOptions"} /\ StackOptions) =>
            /\ S("stack") \in DOMAIN ExtraOf(Heap, w)
            /\ ExtraOf(Heap, w)[S("stack")] = Stack(Heap, w)
            /\ \A i \in ExtraIdx(S("stack")) : ExtraOf(Heap, w)[S("stack")] # args.opts[i].v

\* Extra("stack", v) was the last of two options, v is what the inner Status Error
\* stores, and Extra() shows the captured stack
C11_Witness ==
    /\ BuiltWithOptions
    /\ Len(args.opts) = MaxOpts
    /\ args.opts[MaxOpts] = Extra(S("stack"), S("v"))
    /\ StatusErrorExtra(Heap, Inner(Heap, last.ret))[S("stack")] = S("v")
    /\ ExtraOf(Heap, last.ret)[S("stack")] = Stack(Heap, last.ret)

----------------------------------------------------------------------------
(* Claims about causes *)

Wrapped == {"WrapWithStatus", "WrapWithStatusOptions"}

\* C12: cause chain rendering.  A Stack-Wrapped Error w that WrapWithStatus or
\* WrapWithStatusOptions built over a cause c has Error() = Msg() + ": " + c.Error(),
\* through every cause of the chain, and Unwrap() and Cause() are c, the reference
\* that was passed; one with no cause has Error() = Msg() and Unwrap() nil.
C12_CauseChain ==
    /\ \A w \in Wrappers :
          /\ objs[w].by \in Wrapped =>
                /\ Cause(Heap, w) # NilRef
                /\ Unwrap(Heap, w) = Cause(Heap, w)
                /\ Error(Heap, w) = Msg(Heap, w) \o <<": ">> \o Error(Heap, Cause(Heap, w))
          /\ objs[w].by \notin Wrapped =>
                /\ Unwrap(Heap, w) = NilRef
                /\ Error(Heap, w) = Msg(Heap, w)
          /\ (args.message = S("m") /\ Cause(Heap, w) = PlainErr) =>
                Error(Heap, w) = <<"m", ": ", "original">>
          /\ (args.message = S("m") /\ Cause(Heap, w) \in Wrappers
              /\ Cause(Heap, Cause(Heap, w)) = PlainErr) =>
                Error(Heap, w) = <<"m", ": ", "m", ": ", "original">>
    /\ (last.op \in Wrapped /\ last.ret # NilRef) =>
          /\ Unwrap(Heap, last.ret) = last.arg
          /\ Cause(Heap, last.ret) = last.arg

\* an error was wrapped over a Stack-Wrapped Error that has a cause of its own, and
\* the message of each shows in Error()
C12_Witness ==
    /\ last.op = "WrapWithStatusOptions"
    /\ last.arg \in Wrappers
    /\ objs[last.arg].by = "WrapWithStatus"
    /\ Cause(Heap, last.arg) = PlainErr
    /\ Unwrap(Heap, last.ret) = last.arg
    /\ Error(Heap, last.ret) = <<"x", ": ", "{", "k", "}", ": ", "original">>

\* C13: nil propagation.  WithStack(nil), WrapWithStatus(nil, ...),
\* WrapWithStatusOptions(nil, ...) and ToGRPCError(nil) return nil whatever the code,
\* message, data and options, and build nothing and change nothing on the heap;
\* ToGRPCStatus(nil) returns the status (Internal, "unknown error") without details.
C13_NilPropagation ==
    [][last'.arg = NilRef =>
          /\ last'.op \in {"WithStack", "WrapWithStatus", "WrapWithStatusOptions"} =>
                (last'.ret = NilRef /\ objs' = objs /\ maps' = maps)
          /\ last'.op = "ToGRPCError" => (st' = NoStatus /\ objs' = objs /\ maps' = maps)
          /\ last'.op = "ToGRPCStatus" =>
                (st'.code = "Internal" /\ st'.msg = S("unknown error") /\ st'.details = <<>>)]_vars

\* WrapWithStatusOptions got nil and an option when errors were on the heap, and
\* returned nil
C13_Witness ==
    /\ last = Call("WrapWithStatusOptions", NilRef, NilRef)
    /\ args.opts # <<>>
    /\ Wrappers # {}

----------------------------------------------------------------------------
(* Claims about the registry *)

\* codes that are not in the registry
UnknownCodes == {CodeUnregistered, -1, 0, 201, 1000, 1008, 2000, 2005}

\* the lookups of an unknown code: GetCodeDefinition gives the definition def for
\* each, GetMessage gives its message for the empty custom message and the custom
\* message otherwise; an error built with an unregistered code shows the same
C14_Lookup(def) ==
    /\ \A c \in UnknownCodes :
          /\ c \notin Registered
          /\ GetCodeDefinition(c) = def
          /\ GetMessage(c, Empty) = def.Message
          /\ \A X \in Msgs \ {Empty} : GetMessage(c, X) = X
    /\ \A r \in 1..Len(objs) :
          (objs[r].by = "NewStatusError" /\ args.code \notin Registered) =>
              /\ IsAffectStability(Heap, r) = def.IsAffectStability
              /\ Msg(Heap, r) = IF args.message = Empty THEN def.Message ELSE args.message

\* C14 as claimed: every code that is not in the registry resolves to the definition
\* {"unknown error", true}; GetMessage(c, "") is that message and GetMessage(c, X) is
\* X for a non-empty X.
C14_Original == C14_Lookup([Message |-> S("unknown error"), IsAffectStability |-> TRUE])

\* C14, amended: the same with the default message of the source (the Chinese text,
\* here "default:unknown") in place of "unknown error".
C14_UnknownSentinel == C14_Lookup([Message |-> S("default:unknown"), IsAffectStability |-> TRUE])

\* NewStatusError was called with an unregistered code and the empty message, and
\* the error built has the message of the default definition
C14_Witness ==
    /\ last.op = "NewStatusError"
    /\ args.code = CodeUnregistered
    /\ args.message = Empty
    /\ Msg(Heap, last.ret) = GetCodeDefinition(CodeUnregistered).Message
    /\ Msg(Heap, last.ret) # S("unknown error")
    /\ IsAffectStability(Heap, last.ret)

----------------------------------------------------------------------------
(* Claims about ownership *)

\* C15: a Status Error owns its metadata.  Once NewStatusError has returned e, a
\* write or delete by the caller on a map it holds (the map it passed as data, or a
\* map e.Extra() returned) leaves what e.Extra(), e.Msg() and e.Code() return as it
\* was, for every such e, so that two errors built from one map do not see each
\* other's changes.
C15_OwnsMetadata ==
    [][last'.op \in {"write", "delete"} =>
          \A e \in 1..Len(objs) :
              objs[e].by = "NewStatusError" =>
                  /\ StatusErrorExtra(HeapNext, e) = StatusErrorExtra(Heap, e)
                  /\ Msg(HeapNext, e) = Msg(Heap, e)
                  /\ Code(HeapNext, e) = Code(Heap, e)]_vars

====
